---- MODULE Spec2Model ----
(***************************************************************************)
(* Doctor Who Space Invasion (src/pyGame/doctorWhoSpaceInvasion.py): the   *)
(* module-level game state, the main loop's event handlers and the         *)
(* per-frame simulation step.                                              *)
(*                                                                         *)
(* Horizontal positions are held in units of 1/Scale pixel: invader.x is a *)
(* Python float once an invader has been removed (the sweep speed is       *)
(* totalInvaders / remaining), and Scale makes every such speed a whole    *)
(* number of units.  Floats are modelled as exact fractions.  pygame.Rect  *)
(* truncates a float coordinate toward zero (Trunc).                       *)
(***************************************************************************)
EXTENDS Integers, Sequences, FiniteSets, TLC

\* ------------------------------------------------------------------------
\* Display and game configuration
\* ------------------------------------------------------------------------
displayWidth == 800
displayHeight == 600
initialLives == 3
invaderRows == 3
invaderColumns == 6
invaderSpacing == 65
invaderStartX == 100
invaderStartY == 50
invaderRowSpacing == 80
startInvaderSpeed == 1
speedCap == 3
invaderDrop == 10
totalInvaders == invaderRows * invaderColumns
barrierCount == 4
barrierStartX == 100
barrierSpacing == 180
barrierY == displayHeight - 200
defenderStartOffsetY == 80
respawnMarginY == 20
barrierDefaultMaxHealth == 3

\* Units per pixel: the least number that makes 18/n whole for n in 7..18.
Scale == 8 * 5 * 7 * 11 * 13 * 17

defenderTypes ==
  [K9 |-> [speed |-> 5, width |-> 60, laserSpeed |-> -7,
           laserWidth |-> 5, laserHeight |-> 10]]

invaderTypes ==
  [Dalek        |-> [width |-> 35, height |-> 67, laserSpeed |-> 3,
                     laserWidth |-> 4, laserHeight |-> 8, scoreValue |-> 15],
   Cyberman     |-> [width |-> 35, height |-> 67, laserSpeed |-> 3,
                     laserWidth |-> 4, laserHeight |-> 8, scoreValue |-> 5],
   WeepingAngel |-> [width |-> 35, height |-> 67, laserSpeed |-> 3,
                     laserWidth |-> 4, laserHeight |-> 8, scoreValue |-> 25]]

barrierTypes ==
  [Barrier |-> [health |-> 3, width |-> 100, height |-> 24]]

\* list(invaderTypes.keys()), in insertion order
invaderTypeNames == <<"Dalek", "Cyberman", "WeepingAngel">>

\* ------------------------------------------------------------------------
\* Bounds of the model
\* ------------------------------------------------------------------------
\* simulation steps explored from an initial state
MaxSteps == 3
\* the player does not fire while this many of their lasers are in flight
MaxDefenderLasers == 1
\* no invader fires while this many invader lasers are in flight
MaxInvaderLasers == 1
\* random.choice outcomes for the 18 invader types: this many assignments
NumTypePatterns == 1
\* only the invaders at the first MaxShooters list positions draw a fire
MaxShooters == 1
\* input events (key presses, key releases, quit) delivered in a run
MaxEvents == 3

\* ------------------------------------------------------------------------
\* Sequences
\* ------------------------------------------------------------------------
Range(s) == {s[i] : i \in 1..Len(s)}

\* list.remove(obj) of the object at position i (objects compare by identity)
RemoveAt(s, i) == [j \in 1..(Len(s) - 1) |-> IF j < i THEN s[j] ELSE s[j + 1]]

Min(a, b) == IF a <= b THEN a ELSE b

\* ------------------------------------------------------------------------
\* Rectangles
\* ------------------------------------------------------------------------
\* int(v / Scale), truncating toward zero as pygame.Rect does with a float
Trunc(v) == IF v >= 0 THEN v \div Scale ELSE -((-v) \div Scale)

\* Entity.getRect / Laser.getRect
getRect(e) == [x |-> Trunc(e.x), y |-> e.y, w |-> e.width, h |-> e.height]

\* pygame.Rect.colliderect for rectangles of positive size
colliderect(a, b) ==
  /\ a.x < b.x + b.w
  /\ b.x < a.x + a.w
  /\ a.y < b.y + b.h
  /\ b.y < a.y + a.h

\* ------------------------------------------------------------------------
\* Constructors
\* ------------------------------------------------------------------------
\* Entity.__init__: the fields every invader, defender and barrier has.  The
\* attributes a subclass copies from its type table (laser colour, speed and
\* size, scoreValue, speed) are never assigned again: they are read from the
\* table by name.
Entity(name, x, y, width, height) ==
  [name |-> name, x |-> x, y |-> y, width |-> width, height |-> height]

\* Invader.__init__
Invader(name, x, y) ==
  Entity(name, x, y, invaderTypes[name].width, invaderTypes[name].height)

\* Defender.__init__: height = int(width * 76 / 90)
Defender(name, x, y) ==
  [name |-> name, x |-> x, y |-> y,
   width |-> defenderTypes[name].width,
   height |-> (defenderTypes[name].width * 76) \div 90,
   moveLeft |-> FALSE, moveRight |-> FALSE]

\* Barrier.__init__; damageRegions is held as the number of damage circles
Barrier(name, x, y, maxHealth) ==
  [name |-> name, x |-> x, y |-> y,
   width |-> barrierTypes[name].width, height |-> barrierTypes[name].height,
   health |-> maxHealth, damageRegions |-> 0]

\* Laser.__init__
Laser(x, y, speed, width, height) ==
  [x |-> x, y |-> y, speed |-> speed, width |-> width, height |-> height]

\* ------------------------------------------------------------------------
\* Layout
\* ------------------------------------------------------------------------
\* random.choice(list(invaderTypes.keys())) for grid slot i under pattern p
TypeOf(p, i) == invaderTypeNames[((p * i + p) % Len(invaderTypeNames)) + 1]

\* the defender at its centred start position
NewDefender ==
  Defender("K9",
           (displayWidth \div 2 - defenderTypes["K9"].width \div 2) * Scale,
           displayHeight - defenderStartOffsetY)

\* the invader grid, row by row
NewInvaders(p) ==
  [i \in 1..totalInvaders |->
     LET row == (i - 1) \div invaderColumns
         column == (i - 1) % invaderColumns
     IN Invader(TypeOf(p, i),
                (invaderStartX + column * invaderSpacing) * Scale,
                invaderStartY + row * invaderRowSpacing)]

\* the barriers created at module level (maxHealth from the type's health)
NewBarriers ==
  [i \in 1..barrierCount |->
     Barrier("Barrier", (barrierStartX + (i - 1) * barrierSpacing) * Scale,
             barrierY, barrierTypes["Barrier"].health)]

\* the barriers created by resetGame (maxHealth left to Barrier's default)
ResetBarriers ==
  [i \in 1..barrierCount |->
     Barrier("Barrier", (barrierStartX + (i - 1) * barrierSpacing) * Scale,
             barrierY, barrierDefaultMaxHealth)]

\* ------------------------------------------------------------------------
\* Entity methods
\* ------------------------------------------------------------------------
\* Defender.move without its two edge tests
DefenderMove_Unclamped(d) ==
  LET speed == defenderTypes[d.name].speed * Scale
      x1 == IF d.moveLeft THEN d.x - speed ELSE d.x
      x2 == IF d.moveRight THEN x1 + speed ELSE x1
  IN [d EXCEPT !.x = x2]

\* Defender.move
DefenderMove(d) ==
  LET speed == defenderTypes[d.name].speed * Scale
      x1 == IF d.moveLeft /\ d.x > 0 THEN d.x - speed ELSE d.x
      x2 == IF d.moveRight /\ x1 < (displayWidth - d.width) * Scale
            THEN x1 + speed ELSE x1
  IN [d EXCEPT !.x = x2]

\* Defender.getLaserStart and the Laser built from it by the fire key
DefenderLaser(d) ==
  Laser(d.x + (d.width \div 2) * Scale, d.y,
        defenderTypes[d.name].laserSpeed, defenderTypes[d.name].laserWidth,
        defenderTypes[d.name].laserHeight)

\* the Laser an invader fires: from its bottom centre
InvaderLaser(inv) ==
  Laser(inv.x + (inv.width \div 2) * Scale, inv.y + inv.height,
        invaderTypes[inv.name].laserSpeed, invaderTypes[inv.name].laserWidth,
        invaderTypes[inv.name].laserHeight)

\* Laser.move
LaserMove(l) == [l EXCEPT !.y = @ + l.speed]

\* isOffScreen that tests the top of the screen only
isOffScreen_TopOnly(l) == l.y < 0

\* Laser.isOffScreen
isOffScreen(l) == l.y < 0 \/ l.y > displayHeight

\* isDestroyed off by one: a barrier with no health left counts as alive
isDestroyed_OffByOne(b) == b.health < 0

\* Barrier.isDestroyed
isDestroyed(b) == b.health <= 0

\* takeDamage that draws new circles on a destroyed barrier too
takeDamage_Always(b, n) ==
  [b EXCEPT !.health = @ - 1, !.damageRegions = @ + n]

\* Barrier.takeDamage; n is random.randint(3, 6), the number of new circles
takeDamage(b, n) ==
  LET b1 == [b EXCEPT !.health = @ - 1]
  IN IF ~isDestroyed(b1) THEN [b1 EXCEPT !.damageRegions = @ + n] ELSE b1

\* ------------------------------------------------------------------------
\* Helper functions of the game
\* ------------------------------------------------------------------------
\* the sweep speed with the cap of 5 of an earlier draft
currentSpeed_Cap5(remainingInvaders) ==
  IF remainingInvaders > 0
  THEN Min((startInvaderSpeed * Scale * totalInvaders) \div remainingInvaders,
           startInvaderSpeed * 5 * Scale)
  ELSE startInvaderSpeed * Scale

\* the sweep speed moveInvaders computes, in units per frame
currentSpeed(remainingInvaders) ==
  IF remainingInvaders > 0
  THEN Min((startInvaderSpeed * Scale * totalInvaders) \div remainingInvaders,
           startInvaderSpeed * speedCap * Scale)
  ELSE startInvaderSpeed * Scale

\* moveInvaders with the edge tests strict: an invader on the edge itself
\* does not count
moveInvaders_Strict(w) ==
  LET dx == currentSpeed(Len(w.invaders)) * w.invaderDirection
      reachedEdge ==
        \E i \in 1..Len(w.invaders) :
           \/ w.invaders[i].x + dx < 0
           \/ w.invaders[i].x + dx > (displayWidth - w.invaders[i].width) * Scale
  IN IF reachedEdge
     THEN [w EXCEPT !.invaders =
                      [i \in 1..Len(w.invaders) |->
                         [w.invaders[i] EXCEPT !.x = @ + dx, !.y = @ + invaderDrop]],
                    !.invaderDirection = -w.invaderDirection]
     ELSE [w EXCEPT !.invaders =
                      [i \in 1..Len(w.invaders) |-> [w.invaders[i] EXCEPT !.x = @ + dx]]]

\* moveInvaders with the descent per invader: only those at an edge drop
moveInvaders_PerInvader(w) ==
  LET dx == currentSpeed(Len(w.invaders)) * w.invaderDirection
      atEdge(inv) ==
        \/ inv.x + dx <= 0
        \/ inv.x + dx >= (displayWidth - inv.width) * Scale
  IN [w EXCEPT !.invaders =
                 [i \in 1..Len(w.invaders) |->
                    [w.invaders[i] EXCEPT
                       !.x = @ + dx,
                       !.y = IF atEdge(w.invaders[i]) THEN @ + invaderDrop ELSE @]],
               !.invaderDirection =
                 IF \E i \in 1..Len(w.invaders) : atEdge(w.invaders[i])
                 THEN -w.invaderDirection ELSE w.invaderDirection]

\* moveInvaders that drops the invaders at an edge and keeps the direction
moveInvaders_NoReverse(w) ==
  LET dx == currentSpeed(Len(w.invaders)) * w.invaderDirection
      reachedEdge ==
        \E i \in 1..Len(w.invaders) :
           \/ w.invaders[i].x + dx <= 0
           \/ w.invaders[i].x + dx >= (displayWidth - w.invaders[i].width) * Scale
  IN [w EXCEPT !.invaders =
                 [i \in 1..Len(w.invaders) |->
                    [w.invaders[i] EXCEPT
                       !.x = @ + dx,
                       !.y = IF reachedEdge THEN @ + invaderDrop ELSE @]]]

\* moveInvaders: every invader moves; if one of them is then at an edge,
\* every invader drops and the direction reverses
moveInvaders(w) ==
  LET dx == currentSpeed(Len(w.invaders)) * w.invaderDirection
      reachedEdge ==
        \E i \in 1..Len(w.invaders) :
           \/ w.invaders[i].x + dx <= 0
           \/ w.invaders[i].x + dx >= (displayWidth - w.invaders[i].width) * Scale
  IN IF reachedEdge
     THEN [w EXCEPT !.invaders =
                      [i \in 1..Len(w.invaders) |->
                         [w.invaders[i] EXCEPT !.x = @ + dx, !.y = @ + invaderDrop]],
                    !.invaderDirection = -w.invaderDirection]
     ELSE [w EXCEPT !.invaders =
                      [i \in 1..Len(w.invaders) |-> [w.invaders[i] EXCEPT !.x = @ + dx]]]

\* the position of the first entity of ents whose rectangle r collides with
\* (the inner for loops, which break at the first hit); 0 when there is none
FirstColliding(r, ents) ==
  LET hits == {j \in 1..Len(ents) : colliderect(r, getRect(ents[j]))}
  IN IF hits = {} THEN 0 ELSE CHOOSE j \in hits : \A k \in hits : j <= k

\* a hit without the inner loop's break: every invader the laser overlaps is
\* removed, the first of them scored
HitInvader_NoBreak(st, i, j) ==
  [defenderLasers |-> RemoveAt(st.defenderLasers, i),
   score |-> st.score + invaderTypes[st.invaders[j].name].scoreValue,
   invaders |-> SelectSeq(st.invaders,
                          LAMBDA inv : ~colliderect(getRect(st.defenderLasers[i]),
                                                    getRect(inv)))]

\* a laser-invader hit that forgets the score
HitInvader_NoScore(st, i, j) ==
  [defenderLasers |-> RemoveAt(st.defenderLasers, i),
   score |-> st.score,
   invaders |-> RemoveAt(st.invaders, j)]

\* the body of a laser-invader hit: remove the laser, score, remove the invader
HitInvader(st, i, j) ==
  [defenderLasers |-> RemoveAt(st.defenderLasers, i),
   score |-> st.score + invaderTypes[st.invaders[j].name].scoreValue,
   invaders |-> RemoveAt(st.invaders, j)]

\* checkDefenderLaserCollisions, first loop.  The for loop walks the list by
\* position while the body removes from it: after a removal at position i the
\* loop goes on at position i + 1 of the shortened list.
RECURSIVE LaserInvaderLoop(_, _)
LaserInvaderLoop(i, st) ==
  IF i > Len(st.defenderLasers) THEN st
  ELSE LET j == FirstColliding(getRect(st.defenderLasers[i]), st.invaders)
       IN IF j = 0 THEN LaserInvaderLoop(i + 1, st)
          ELSE LaserInvaderLoop(i + 1, HitInvader(st, i, j))

DefenderLaserInvaderPass(w) ==
  LET st == LaserInvaderLoop(1, [defenderLasers |-> w.defenderLasers,
                                 score |-> w.score, invaders |-> w.invaders])
  IN [w EXCEPT !.defenderLasers = st.defenderLasers, !.score = st.score,
               !.invaders = st.invaders]

\* barrier.takeDamage() and the removal of a destroyed barrier
DamageBarrier(bars, j, n) ==
  LET b == takeDamage(bars[j], n)
  IN IF isDestroyed(b) THEN RemoveAt(bars, j) ELSE [bars EXCEPT ![j] = b]

\* the three x-barrier loops (defender lasers, invader lasers, invader
\* bodies): the same code over a different list
RECURSIVE BarrierLoop(_, _, _)
BarrierLoop(i, st, n) ==
  IF i > Len(st.ents) THEN st
  ELSE LET j == FirstColliding(getRect(st.ents[i]), st.barriers)
       IN IF j = 0 THEN BarrierLoop(i + 1, st, n)
          ELSE BarrierLoop(i + 1, [ents |-> RemoveAt(st.ents, i),
                                   barriers |-> DamageBarrier(st.barriers, j, n)], n)

\* checkDefenderLaserCollisions, second loop
DefenderLaserBarrierPass(w, n) ==
  LET st == BarrierLoop(1, [ents |-> w.defenderLasers, barriers |-> w.barriers], n)
  IN [w EXCEPT !.defenderLasers = st.ents, !.barriers = st.barriers]

\* checkDefenderLaserCollisions
checkDefenderLaserCollisions(w, n) ==
  DefenderLaserBarrierPass(DefenderLaserInvaderPass(w), n)

\* checkInvaderLaserCollisions, first loop
InvaderLaserBarrierPass(w, n) ==
  LET st == BarrierLoop(1, [ents |-> w.invaderLasers, barriers |-> w.barriers], n)
  IN [w EXCEPT !.invaderLasers = st.ents, !.barriers = st.barriers]

\* checkInvaderLaserCollisions: the state it leaves and the value it returns
checkInvaderLaserCollisions(w, n) ==
  LET w1 == InvaderLaserBarrierPass(w, n)
  IN [w |-> w1,
      result |-> IF \E i \in 1..Len(w1.invaderLasers) :
                      colliderect(getRect(w1.invaderLasers[i]), getRect(w1.defender))
                 THEN "defender hit" ELSE "None"]

\* checkInvaderCollisions, first loop
InvaderBarrierPass(w, n) ==
  LET st == BarrierLoop(1, [ents |-> w.invaders, barriers |-> w.barriers], n)
  IN [w EXCEPT !.invaders = st.ents, !.barriers = st.barriers]

\* checkInvaderCollisions: the state it leaves and the value it returns
checkInvaderCollisions(w, n) ==
  LET w1 == InvaderBarrierPass(w, n)
  IN [w |-> w1,
      result |-> IF \E i \in 1..Len(w1.invaders) :
                      colliderect(getRect(w1.invaders[i]), getRect(w1.defender))
                 THEN "defender hit" ELSE "None"]

\* checkVictory off by one
checkVictory_OffByOne(w) == Len(w.invaders) = 1

\* checkVictory
checkVictory(w) == Len(w.invaders) = 0

\* respawnDefender that forgets the invaders' lasers
respawnDefender_KeepsInvaderLasers(w) ==
  [w EXCEPT !.defender.x = (displayWidth \div 2 - w.defender.width \div 2) * Scale,
            !.defender.y = displayHeight - w.defender.height - respawnMarginY,
            !.defenderLasers = <<>>]

\* respawnDefender
respawnDefender(w) ==
  [w EXCEPT !.defender.x = (displayWidth \div 2 - w.defender.width \div 2) * Scale,
            !.defender.y = displayHeight - w.defender.height - respawnMarginY,
            !.defenderLasers = <<>>,
            !.invaderLasers = <<>>]

\* resetGame that forgets the score
resetGame_KeepsScore(w, p) ==
  [w EXCEPT !.lives = initialLives, !.victory = FALSE,
            !.defender = NewDefender,
            !.defenderLasers = <<>>,
            !.invaders = NewInvaders(p),
            !.invaderLasers = <<>>,
            !.invaderDirection = 1,
            !.barriers = ResetBarriers]

\* resetGame; p selects the random type assignment
resetGame(w, p) ==
  [w EXCEPT !.score = 0, !.lives = initialLives, !.victory = FALSE,
            !.defender = NewDefender,
            !.defenderLasers = <<>>,
            !.invaders = NewInvaders(p),
            !.invaderLasers = <<>>,
            !.invaderDirection = 1,
            !.barriers = ResetBarriers]

\* ------------------------------------------------------------------------
\* The simulation step (main loop, "if gameState == 'playing'")
\* ------------------------------------------------------------------------
\* move every laser of a list, then remove those that left the screen
AdvanceLasers(lasers) ==
  LET moved == [i \in 1..Len(lasers) |-> LaserMove(lasers[i])]
  IN SelectSeq(moved, LAMBDA l : ~isOffScreen(l))

\* "for invader in invaders: if random.random() < adjustedFireRate": fire is
\* the set of list positions whose draw succeeded
RECURSIVE FiredLasers(_, _, _)
FiredLasers(i, invs, fire) ==
  IF i > Len(invs) THEN <<>>
  ELSE (IF i \in fire THEN <<InvaderLaser(invs[i])>> ELSE <<>>)
       \o FiredLasers(i + 1, invs, fire)

InvaderFire(w, fire) ==
  [w EXCEPT !.invaderLasers = @ \o FiredLasers(1, w.invaders, fire)]

\* the hit resolution with "lives >= 0" for "lives > 0"
DefenderHit_OffByOne(w) ==
  LET w1 == [w EXCEPT !.lives = @ - 1]
  IN IF w1.lives >= 0 THEN respawnDefender(w1)
     ELSE [w1 EXCEPT !.victory = FALSE, !.gameState = "gameover"]

\* "lives -= 1" and what follows it, for either kind of defender hit
DefenderHit(w) ==
  LET w1 == [w EXCEPT !.lives = @ - 1]
  IN IF w1.lives > 0 THEN respawnDefender(w1)
     ELSE [w1 EXCEPT !.victory = FALSE, !.gameState = "gameover"]

\* what the hit resolution and the victory check of a step start from
AtCheck(w) ==
  [score |-> w.score, lives |-> w.lives, defender |-> w.defender,
   defenderLasers |-> w.defenderLasers, invaderLasers |-> w.invaderLasers,
   invaders |-> w.invaders, barriers |-> w.barriers]

\* the step up to the collision detection with the invaders firing last,
\* after both laser lists are advanced and culled
BeforeCollisions_FireLast(w, fire) ==
  LET a == [w EXCEPT !.defender = DefenderMove(w.defender)]
      b == moveInvaders(a)
      c == [b EXCEPT !.defenderLasers = AdvanceLasers(@),
                     !.invaderLasers = AdvanceLasers(@)]
  IN InvaderFire(c, fire)

\* the step up to the collision detection: movement, laser advance and
\* culling, invader fire (fire: the invaders whose draw succeeded)
BeforeCollisions(w, fire) ==
  LET a == [w EXCEPT !.defender = DefenderMove(w.defender)]
      b == moveInvaders(a)
      c == [b EXCEPT !.defenderLasers = AdvanceLasers(@)]
      d == InvaderFire(c, fire)
  IN [d EXCEPT !.invaderLasers = AdvanceLasers(@)]

\* the step missing its first "continue": a laser hit is resolved and the
\* body check and the victory check run all the same
Collisions_NoContinue(e, n) ==
  LET f == checkDefenderLaserCollisions(e, n)
      g == checkInvaderLaserCollisions(f, n)
      g1 == IF g.result = "defender hit" THEN DefenderHit(g.w) ELSE g.w
      h == checkInvaderCollisions(g1, n)
  IN IF h.result = "defender hit" /\ g1.gameState = "playing"
     THEN [w |-> DefenderHit(h.w),
           trace |-> [laserResult |-> g.result, invaderResult |-> h.result,
                      victoryChecked |-> FALSE, atCheck |-> AtCheck(g.w)]]
     ELSE [w |-> h.w,
           trace |-> [laserResult |-> g.result, invaderResult |-> h.result,
                      victoryChecked |-> FALSE, atCheck |-> AtCheck(g.w)]]

\* the step from the collision detection on: the three checks, the hit
\* resolution with its "continue", the victory check; with what it ran
\* (n: the damage circles a hit barrier gets)
Collisions(e, n) ==
  LET f == checkDefenderLaserCollisions(e, n)
      g == checkInvaderLaserCollisions(f, n)
      h == checkInvaderCollisions(g.w, n)
  IN IF g.result = "defender hit"
     THEN [w |-> DefenderHit(g.w),
           trace |-> [laserResult |-> g.result, invaderResult |-> "not run",
                      victoryChecked |-> FALSE, atCheck |-> AtCheck(g.w)]]
     ELSE IF h.result = "defender hit"
     THEN [w |-> DefenderHit(h.w),
           trace |-> [laserResult |-> g.result, invaderResult |-> h.result,
                      victoryChecked |-> FALSE, atCheck |-> AtCheck(h.w)]]
     ELSE [w |-> IF checkVictory(h.w)
                 THEN [h.w EXCEPT !.victory = TRUE, !.gameState = "gameover"]
                 ELSE h.w,
           trace |-> [laserResult |-> g.result, invaderResult |-> h.result,
                      victoryChecked |-> TRUE, atCheck |-> AtCheck(h.w)]]

\* one simulation step: the state it leaves and what it ran
SimulationStep(w, fire, n) == Collisions(BeforeCollisions(w, fire), n)

\* ------------------------------------------------------------------------
\* Event handlers (main loop, "for event in pygame.event.get()")
\* ------------------------------------------------------------------------
Keys == {"SPACE", "ESCAPE", "LEFT", "RIGHT", "OTHER"}

\* event.type == pygame.QUIT
HandleQuit(w) == [w EXCEPT !.running = FALSE]

\* KEYDOWN with the game-over branch taken while playing as well
HandleKeyDown_ResetWhilePlaying(w, key, p) ==
  IF w.gameState = "start"
  THEN (IF key = "SPACE" THEN [w EXCEPT !.gameState = "playing"] ELSE w)
  ELSE (IF key = "SPACE" THEN [resetGame(w, p) EXCEPT !.gameState = "playing"]
        ELSE IF key = "ESCAPE" THEN [w EXCEPT !.running = FALSE]
        ELSE w)

\* KEYDOWN with the movement keys handled in every state
HandleKeyDown_MoveAnywhere(w, key, p) ==
  IF key = "LEFT" THEN [w EXCEPT !.defender.moveLeft = TRUE]
  ELSE IF key = "RIGHT" THEN [w EXCEPT !.defender.moveRight = TRUE]
  ELSE IF w.gameState = "start"
  THEN (IF key = "SPACE" THEN [w EXCEPT !.gameState = "playing"] ELSE w)
  ELSE IF w.gameState = "gameover"
  THEN (IF key = "SPACE" THEN [resetGame(w, p) EXCEPT !.gameState = "playing"]
        ELSE IF key = "ESCAPE" THEN [w EXCEPT !.running = FALSE]
        ELSE w)
  ELSE (IF key = "SPACE"
        THEN [w EXCEPT !.defenderLasers = Append(@, DefenderLaser(w.defender))]
        ELSE w)

\* KEYDOWN with the cancel key ending the loop in every state
HandleKeyDown_CancelAnywhere(w, key, p) ==
  IF key = "ESCAPE" THEN [w EXCEPT !.running = FALSE]
  ELSE IF w.gameState = "start"
  THEN (IF key = "SPACE" THEN [w EXCEPT !.gameState = "playing"] ELSE w)
  ELSE IF w.gameState = "gameover"
  THEN (IF key = "SPACE" THEN [resetGame(w, p) EXCEPT !.gameState = "playing"]
        ELSE w)
  ELSE (IF key = "LEFT" THEN [w EXCEPT !.defender.moveLeft = TRUE]
        ELSE IF key = "RIGHT" THEN [w EXCEPT !.defender.moveRight = TRUE]
        ELSE IF key = "SPACE"
        THEN [w EXCEPT !.defenderLasers = Append(@, DefenderLaser(w.defender))]
        ELSE w)

\* event.type == pygame.KEYDOWN
HandleKeyDown(w, key, p) ==
  IF w.gameState = "start"
  THEN (IF key = "SPACE" THEN [w EXCEPT !.gameState = "playing"] ELSE w)
  ELSE IF w.gameState = "gameover"
  THEN (IF key = "SPACE" THEN [resetGame(w, p) EXCEPT !.gameState = "playing"]
        ELSE IF key = "ESCAPE" THEN [w EXCEPT !.running = FALSE]
        ELSE w)
  ELSE IF w.gameState = "playing"
  THEN (IF key = "LEFT" THEN [w EXCEPT !.defender.moveLeft = TRUE]
        ELSE IF key = "RIGHT" THEN [w EXCEPT !.defender.moveRight = TRUE]
        ELSE IF key = "SPACE"
        THEN [w EXCEPT !.defenderLasers = Append(@, DefenderLaser(w.defender))]
        ELSE w)
  ELSE w

\* event.type == pygame.KEYUP
HandleKeyUp(w, key) ==
  IF w.gameState = "playing"
  THEN (IF key = "LEFT" THEN [w EXCEPT !.defender.moveLeft = FALSE]
        ELSE IF key = "RIGHT" THEN [w EXCEPT !.defender.moveRight = FALSE]
        ELSE w)
  ELSE w

\* ------------------------------------------------------------------------
\* State
\* ------------------------------------------------------------------------
VARIABLES
  gameState,         \* "start", "playing", "gameover"
  score, lives, victory,
  defender, defenderLasers,
  invaders, invaderLasers, invaderDirection,
  barriers,
  running,           \* the main loop's flag
  exited,            \* the while loop has ended
  steps,             \* simulation steps run so far
  events,            \* input events delivered so far
  lastStep           \* what the latest simulation step ran

vars == <<gameState, score, lives, victory, defender, defenderLasers, invaders,
          invaderLasers, invaderDirection, barriers, running, exited, steps,
          events, lastStep>>

World ==
  [gameState |-> gameState, score |-> score, lives |-> lives,
   victory |-> victory, defender |-> defender,
   defenderLasers |-> defenderLasers, invaders |-> invaders,
   invaderLasers |-> invaderLasers, invaderDirection |-> invaderDirection,
   barriers |-> barriers, running |-> running]

Becomes(w) ==
  /\ gameState' = w.gameState
  /\ score' = w.score
  /\ lives' = w.lives
  /\ victory' = w.victory
  /\ defender' = w.defender
  /\ defenderLasers' = w.defenderLasers
  /\ invaders' = w.invaders
  /\ invaderLasers' = w.invaderLasers
  /\ invaderDirection' = w.invaderDirection
  /\ barriers' = w.barriers
  /\ running' = w.running

\* the module-level initialisation, with type assignment p
InitialWorld(p) ==
  [gameState |-> "start", score |-> 0, lives |-> initialLives,
   victory |-> FALSE, defender |-> NewDefender, defenderLasers |-> <<>>,
   invaders |-> NewInvaders(p), invaderLasers |-> <<>>,
   invaderDirection |-> 1, barriers |-> NewBarriers, running |-> TRUE]

NoStep(w) ==
  [laserResult |-> "not run", invaderResult |-> "not run",
   victoryChecked |-> FALSE, atCheck |-> AtCheck(w)]

StartsAs(w) ==
  /\ gameState = w.gameState
  /\ score = w.score
  /\ lives = w.lives
  /\ victory = w.victory
  /\ defender = w.defender
  /\ defenderLasers = w.defenderLasers
  /\ invaders = w.invaders
  /\ invaderLasers = w.invaderLasers
  /\ invaderDirection = w.invaderDirection
  /\ barriers = w.barriers
  /\ running = w.running
  /\ exited = FALSE
  /\ steps = 0
  /\ events = 0
  /\ lastStep = NoStep(w)

\* ------------------------------------------------------------------------
\* Actions: one per event kind, and one per frame
\* ------------------------------------------------------------------------
Quit ==
  /\ ~exited
  /\ events < MaxEvents
  /\ \E w \in {HandleQuit(World)} : Becomes(w)
  /\ events' = events + 1
  /\ UNCHANGED <<exited, steps, lastStep>>

KeyDown ==
  /\ ~exited
  /\ events < MaxEvents
  /\ \E key \in Keys, p \in 1..NumTypePatterns :
       /\ (gameState = "playing" /\ key = "SPACE")
            => Len(defenderLasers) < MaxDefenderLasers
       /\ \E w \in {HandleKeyDown(World, key, p)} : Becomes(w)
  /\ events' = events + 1
  /\ UNCHANGED <<exited, steps, lastStep>>

KeyUp ==
  /\ ~exited
  /\ events < MaxEvents
  /\ \E key \in Keys : \E w \in {HandleKeyUp(World, key)} : Becomes(w)
  /\ events' = events + 1
  /\ UNCHANGED <<exited, steps, lastStep>>

\* the draws of one frame's invader fire
FireChoices ==
  {{}} \cup (IF Len(invaderLasers) < MaxInvaderLasers
             THEN {{i} : i \in 1..Min(Len(invaders), MaxShooters)}
             ELSE {})

\* the rest of a loop iteration while playing: the simulation step
PlayFrame ==
  /\ ~exited
  /\ gameState = "playing"
  /\ steps < MaxSteps
  /\ \E fire \in FireChoices, n \in 3..6 :
       \E r \in {SimulationStep(World, fire, n)} :
          /\ Becomes(r.w)
          /\ lastStep' = r.trace
  /\ steps' = steps + 1
  /\ exited' = ~running
  /\ UNCHANGED events

\* the rest of a loop iteration on the start or game-over screen
IdleFrame ==
  /\ ~exited
  /\ gameState # "playing"
  /\ exited' = ~running
  /\ UNCHANGED <<gameState, score, lives, victory, defender, defenderLasers,
                 invaders, invaderLasers, invaderDirection, barriers, running,
                 steps, events, lastStep>>

Next == Quit \/ KeyDown \/ KeyUp \/ PlayFrame \/ IdleFrame

\* ------------------------------------------------------------------------
\* Initial states: the program's start, and states of a game under way
\* ------------------------------------------------------------------------
\* the invaders of grid slots alive, after k descents, with column 0 at x
RECURSIVE GridFrom(_, _, _, _, _)
GridFrom(i, col0x, k, alive, p) ==
  IF i > totalInvaders THEN <<>>
  ELSE (IF i \in alive
        THEN <<Invader(TypeOf(p, i),
                       (col0x + ((i - 1) % invaderColumns) * invaderSpacing) * Scale,
                       invaderStartY + ((i - 1) \div invaderColumns) * invaderRowSpacing
                         + k * invaderDrop)>>
        ELSE <<>>)
       \o GridFrom(i + 1, col0x, k, alive, p)

\* the score of a game in which every invader not in alive was shot
RECURSIVE ShotScore(_, _, _)
ShotScore(i, alive, p) ==
  IF i > totalInvaders THEN 0
  ELSE (IF i \in alive THEN 0 ELSE invaderTypes[TypeOf(p, i)].scoreValue)
       + ShotScore(i + 1, alive, p)

\* the barriers with the given healths (0: destroyed and removed); each hit
\* a surviving barrier took is counted with three damage circles
RECURSIVE BarriersFrom(_, _)
BarriersFrom(i, healths) ==
  IF i > barrierCount THEN <<>>
  ELSE (IF healths[i] > 0
        THEN <<[NewBarriers[i] EXCEPT
                  !.health = healths[i],
                  !.damageRegions = 3 * (barrierTypes["Barrier"].health - healths[i])]>>
        ELSE <<>>)
       \o BarriersFrom(i + 1, healths)

\* A game under way.  The defender stands at height displayHeight - 80 until
\* its first hit and at the respawn height after it; the sweep direction is
\* +1 after an even number of descents; x positions are whole pixels.
MidGame(l, col0x, k, alive, p, dx, dLasers, iLasers, healths) ==
  [gameState |-> "playing", score |-> ShotScore(1, alive, p), lives |-> l,
   victory |-> FALSE,
   defender |-> [NewDefender EXCEPT
                   !.x = dx * Scale,
                   !.y = IF l = initialLives THEN NewDefender.y
                         ELSE displayHeight - NewDefender.height - respawnMarginY],
   defenderLasers |-> dLasers,
   invaders |-> GridFrom(1, col0x, k, alive, p),
   invaderLasers |-> iLasers,
   invaderDirection |-> IF k % 2 = 0 THEN 1 ELSE -1,
   barriers |-> BarriersFrom(1, healths), running |-> TRUE]

\* a laser of the defender / of an invader in flight at pixel (x, y)
DLaser(x, y) == Laser(x * Scale, y, defenderTypes["K9"].laserSpeed,
                      defenderTypes["K9"].laserWidth, defenderTypes["K9"].laserHeight)
ILaser(x, y) == Laser(x * Scale, y, invaderTypes["Dalek"].laserSpeed,
                      invaderTypes["Dalek"].laserWidth, invaderTypes["Dalek"].laserHeight)

\* One invader left, the defender's laser one frame below it, an invader's
\* laser one or two frames above the defender.
LastInvaderGames(p) ==
  {MidGame(l, 300, 2, {13}, p, 370, <<DLaser(320, 299)>>, <<ILaser(400, yi)>>,
           <<3, 3, 3, 3>>) : l \in {1, 2}, yi \in {517, 520}}

\* The barriers are gone and invaders of the bottom row have come down to the
\* defender's height, one of them a frame away from touching it; with or
\* without an invader's laser arriving in the same frame.
InvasionGames(p) ==
  {MidGame(l, 335, 26, {13, 14}, p, 370, <<>>, il, <<0, 0, 0, 0>>) :
     l \in {1, 2}, il \in {<<>>, <<ILaser(400, 520)>>}}
  \cup {MidGame(initialLives, 432, 25, {13}, p, 370, <<>>, <<>>, <<0, 0, 0, 0>>)}

\* No invader shot yet; the grid is one frame from the right edge and from
\* the descent that brings its bottom row onto the barriers; a defender laser
\* and an invader laser are one frame from a barrier.
BarrierGames(p) ==
  {MidGame(initialLives, 439, 12, 1..totalInvaders, p, 370,
           <<DLaser(375, 429)>>, <<ILaser(150, 391)>>, <<h, 3, 1, 3>>) :
     h \in {1, 2}}

\* Early in a game: no descent yet, the defender's laser one frame below the
\* bottom row, an invader's laser one frame above the defender.
EarlyGames(p) ==
  {MidGame(initialLives, 200, 0, 1..totalInvaders, p, 370,
           <<DLaser(340, 282)>>, <<ILaser(400, 511)>>, <<3, 3, 3, 3>>)}

GamesUnderWay(p) ==
  LastInvaderGames(p) \cup InvasionGames(p) \cup BarrierGames(p) \cup EarlyGames(p)

Init ==
  \E p \in 1..NumTypePatterns :
    \E w \in {InitialWorld(p)} \cup GamesUnderWay(p) : StartsAs(w)

Spec == Init /\ [][Next]_vars

\* ------------------------------------------------------------------------
\* Properties
\* ------------------------------------------------------------------------
\* the transition is a simulation step
IsStep == steps' = steps + 1

\* the latest step acted on a defender hit
WasHit(t) == t.laserResult = "defender hit" \/ t.invaderResult = "defender hit"

\* the transition is the KEYDOWN handler run on the confirm key
ConfirmPressed ==
  /\ events' = events + 1
  /\ \E p \in 1..NumTypePatterns : Becomes(HandleKeyDown(World, "SPACE", p))

\* C1: gameState changes only start -> playing on a confirm key press,
\* playing -> gameover in a simulation step that exhausts the lives or finds
\* no invader left, and gameover -> playing on a confirm key press; and while
\* the state stays playing nothing is reset (lives do not grow, the score
\* does not fall, no invader or barrier comes back).
C1_LegalTransitions ==
  [][ /\ (gameState' # gameState) =>
           \/ gameState = "start" /\ gameState' = "playing" /\ ConfirmPressed
           \/ /\ gameState = "playing" /\ gameState' = "gameover" /\ IsStep
              /\ \/ lives' = 0 /\ ~victory'
                 \/ Len(invaders') = 0 /\ victory'
           \/ gameState = "gameover" /\ gameState' = "playing" /\ ConfirmPressed
      /\ (gameState = "playing" /\ gameState' = "playing") =>
           /\ lives' <= lives
           /\ score' >= score
           /\ Len(invaders') <= Len(invaders)
           /\ Len(barriers') <= Len(barriers) ]_vars

\* a game was won, and the confirm key started the next one
C1_Witness ==
  /\ gameState = "playing"
  /\ lastStep.victoryChecked /\ Len(lastStep.atCheck.invaders) = 0
  /\ Len(invaders) = totalInvaders

\* what a simulation step may change
SimulationVars ==
  <<score, lives, victory, defender, defenderLasers, invaders, invaderLasers,
    invaderDirection, barriers, steps, lastStep>>

\* C2: lives >= 0 always, and lives = 0 exactly in gameover with victory
\* false; the step that takes the last life sets gameover and victory false;
\* in gameover no simulation step runs until the confirm key resets the game.
C2_LivesAndGameOver ==
  /\ [](lives >= 0 /\ (lives = 0 <=> (gameState = "gameover" /\ ~victory)))
  /\ [][ /\ (lives > 0 /\ lives' = 0) =>
              (IsStep /\ gameState' = "gameover" /\ ~victory')
         /\ (gameState = "gameover" /\ gameState' = "gameover") =>
              UNCHANGED SimulationVars
         /\ (gameState = "gameover" /\ gameState' # "gameover") =>
              ConfirmPressed ]_vars

\* the last life was taken by a step
C2_Witness ==
  /\ lives = 0 /\ gameState = "gameover" /\ ~victory
  /\ WasHit(lastStep) /\ lastStep.atCheck.lives = 1

\* C3 as the spec states it: whenever a step empties the invader set, that
\* step transitions to gameover with victory true, defender hit or not.
C3_VictoryWheneverEmptied ==
  [][ (gameState = "playing" /\ Len(invaders) > 0 /\ Len(invaders') = 0) =>
        (gameState' = "gameover" /\ victory') ]_vars

\* C3, amended: a step that ends with no invader left and acts on no defender
\* hit transitions to gameover with victory true.  A step that acts on a
\* defender hit skips the victory check: with no life left it transitions to
\* gameover with victory false, with lives left the state stays playing, and
\* the next step (which starts with no invader) declares the victory.
C3_VictoryUnlessHit ==
  [][ IsStep =>
        /\ (Len(invaders') = 0 /\ ~WasHit(lastStep')) =>
             (gameState' = "gameover" /\ victory')
        /\ (Len(invaders') = 0 /\ WasHit(lastStep')) =>
             /\ ~victory'
             /\ gameState' = (IF lives' = 0 THEN "gameover" ELSE "playing")
        /\ Len(invaders) = 0 => (gameState' = "gameover" /\ victory') ]_vars

\* a victory declared one frame late: the last invader fell in the step that
\* respawned the defender
C3_Witness ==
  /\ gameState = "gameover" /\ victory
  /\ Len(invaders) = 0
  /\ defender.y = displayHeight - defender.height - respawnMarginY
  /\ defenderLasers = <<>> /\ invaderLasers = <<>>
  /\ lastStep.atCheck.defenderLasers = <<>>

\* some invader of the list overlaps the defender
BodyOverlap(invs, d) ==
  \E i \in 1..Len(invs) : colliderect(getRect(invs[i]), getRect(d))

\* C4: a step takes at most one life; when an invader laser hits the
\* defender the step stops there: the body-collision check and the victory
\* check do not run, whatever overlaps the defender.
C4_OneHitPerFrame ==
  [][ /\ lives' >= lives - 1
      /\ (IsStep /\ lastStep'.laserResult = "defender hit") =>
           /\ lives' = lives - 1
           /\ lastStep'.invaderResult = "not run"
           /\ ~lastStep'.victoryChecked
           /\ invaders' = lastStep'.atCheck.invaders
           /\ barriers' = lastStep'.atCheck.barriers ]_vars

\* a laser and an invader body overlapped the defender in one step, and one
\* life was taken
C4_Witness ==
  /\ lastStep.laserResult = "defender hit"
  /\ BodyOverlap(lastStep.atCheck.invaders, lastStep.atCheck.defender)
  /\ lives = lastStep.atCheck.lives - 1

\* C5 as the spec states it: a hit with lives left puts the defender back at
\* the position it has at game start and after resetGame.
C5_RespawnAtStartPosition ==
  [][ (IsStep /\ WasHit(lastStep') /\ lives' > 0) =>
        (defender'.x = NewDefender.x /\ defender'.y = NewDefender.y) ]_vars

\* C6: a hit with lives left leaves both laser lists empty, and the respawn
\* changes neither the score nor the invaders nor the barriers the
\* collision checks left.
C6_RespawnClearsLasers ==
  [][ (IsStep /\ WasHit(lastStep') /\ lives' > 0) =>
        /\ defenderLasers' = <<>>
        /\ invaderLasers' = <<>>
        /\ score' = lastStep'.atCheck.score
        /\ invaders' = lastStep'.atCheck.invaders
        /\ barriers' = lastStep'.atCheck.barriers ]_vars

\* a respawn that found lasers of both kinds in flight
C6_Witness ==
  /\ WasHit(lastStep) /\ lives = lastStep.atCheck.lives - 1 /\ lives > 0
  /\ lastStep.atCheck.defenderLasers # <<>>
  /\ lastStep.atCheck.invaderLasers # <<>>
  /\ defenderLasers = <<>> /\ invaderLasers = <<>>
  /\ gameState = "playing"

\* the state resetGame must leave, in the numbers of the layout
FreshGame(w) ==
  /\ w.score = 0 /\ w.lives = 3 /\ w.victory = FALSE
  /\ w.invaderDirection = 1
  /\ w.defender.x = 370 * Scale /\ w.defender.y = 520
  /\ ~w.defender.moveLeft /\ ~w.defender.moveRight
  /\ Len(w.invaders) = 18
  /\ \A row \in 0..2, col \in 0..5 :
       /\ w.invaders[6 * row + col + 1].x = (100 + 65 * col) * Scale
       /\ w.invaders[6 * row + col + 1].y = 50 + 80 * row
  /\ Len(w.barriers) = 4
  /\ \A i \in 0..3 :
       /\ w.barriers[i + 1].x = (100 + 180 * i) * Scale
       /\ w.barriers[i + 1].y = 400
       /\ w.barriers[i + 1].health = 3
       /\ w.barriers[i + 1].damageRegions = 0
  /\ w.defenderLasers = <<>> /\ w.invaderLasers = <<>>

\* the game state with the invaders' types and the loop's flag left out
Untyped(w) ==
  [w EXCEPT !.running = TRUE,
            !.invaders = [i \in 1..Len(w.invaders) |->
                            [w.invaders[i] EXCEPT !.name = "any"]]]

\* C7: after gameover -> playing the state is that of a fresh game, equal to
\* the program's initial state but for gameState and the invaders' types.
C7_ResetIsFresh ==
  [][ (gameState = "gameover" /\ gameState' = "playing") =>
        /\ FreshGame(World')
        /\ \E p \in 1..NumTypePatterns :
             Untyped(World') =
               Untyped([InitialWorld(p) EXCEPT !.gameState = "playing"]) ]_vars

\* a lost game was reset by the confirm key
C7_Witness ==
  /\ gameState = "playing" /\ lives = initialLives /\ score = 0
  /\ WasHit(lastStep) /\ lastStep.atCheck.lives = 1
  /\ lastStep.atCheck.score > 0

\* C8 as the spec states it: the invader whose body overlapped the defender
\* in the body-collision check is no longer in the invader set after it.
C8_BodyHitRemovesInvader ==
  [][ (IsStep /\ lastStep'.invaderResult = "defender hit") =>
        \A i \in 1..Len(lastStep'.atCheck.invaders) :
           colliderect(getRect(lastStep'.atCheck.invaders[i]),
                       getRect(lastStep'.atCheck.defender))
             => lastStep'.atCheck.invaders[i] \notin Range(invaders') ]_vars

\* every barrier of the list is alive
Healthy(bars) ==
  \A i \in 1..Len(bars) :
     bars[i].health >= 1 /\ bars[i].health <= barrierTypes[bars[i].name].health

\* the barrier lists the collision loops of a step from here would test
TestedBarriers(fire, n) ==
  LET e == BeforeCollisions(World, fire)
      f == checkDefenderLaserCollisions(e, n)
      g == InvaderLaserBarrierPass(f, n)
      h == InvaderBarrierPass(g, n)
  IN {e.barriers, DefenderLaserInvaderPass(e).barriers, f.barriers,
      g.barriers, h.barriers}

\* C10: every barrier in the set has health >= 1 (and at most its full
\* health) when it is drawn and when a collision loop tests it; a barrier
\* keeps or loses health from one frame or event to the next unless the game
\* is reset, and one whose health reaches 0 is gone by the end of the pass.
C10_BarrierHealth ==
  /\ [](/\ Healthy(barriers)
        /\ gameState = "playing" =>
             \A fire \in FireChoices, n \in 3..6 :
                \A bars \in TestedBarriers(fire, n) : Healthy(bars))
  /\ [][ ~(gameState = "gameover" /\ gameState' = "playing") =>
           \A i \in 1..Len(barriers') :
              \E j \in 1..Len(barriers) :
                 /\ barriers[j].x = barriers'[i].x
                 /\ barriers'[i].health <= barriers[j].health
                 /\ barriers'[i].health >= 1 ]_vars

\* a step destroyed one barrier and damaged another
C10_Witness ==
  /\ steps = 1
  /\ Len(barriers) = barrierCount - 1
  /\ \E i \in 1..Len(barriers) :
       barriers[i].health = 2 /\ barriers[i].damageRegions > 0

\* ------------------------------------------------------------------------
\* The collision passes on their own, over small inputs
\* ------------------------------------------------------------------------
\* lasers and invaders a pass is run on
MaxPassLasers == 2
MaxPassInvaders == 3

\* the sequences over S of length at most n
SeqsUpTo(S, n) == UNION {[1..k -> S] : k \in 0..n}

\* defender lasers: two that overlap the invaders at x = 100, one that
\* overlaps the invader at x = 200
PassLasers == {DLaser(110, 160), DLaser(125, 160), DLaser(210, 160)}

\* invaders: two kinds at one position, one overlapping both, one apart
PassInvaders ==
  {Invader("Dalek", 100 * Scale, 100), Invader("Cyberman", 100 * Scale, 100),
   Invader("WeepingAngel", 120 * Scale, 100), Invader("Dalek", 200 * Scale, 100)}

PassInit ==
  \E dl \in SeqsUpTo(PassLasers, MaxPassLasers),
     invs \in SeqsUpTo(PassInvaders, MaxPassInvaders) :
    StartsAs([InitialWorld(1) EXCEPT !.gameState = "playing",
                                     !.defenderLasers = dl,
                                     !.invaders = invs])

\* checkDefenderLaserCollisions' first loop, run once
RunLaserInvaderPass ==
  /\ steps = 0
  /\ \E w \in {DefenderLaserInvaderPass(World)} : Becomes(w)
  /\ steps' = 1
  /\ UNCHANGED <<exited, events, lastStep>>

PassNext == RunLaserInvaderPass

PassSpec == PassInit /\ [][PassNext]_vars

\* the scoreValues of a list of invaders, summed
RECURSIVE TotalScore(_)
TotalScore(invs) ==
  IF invs = <<>> THEN 0
  ELSE invaderTypes[Head(invs).name].scoreValue + TotalScore(Tail(invs))

\* the lasers of a list that overlap some invader of a list
Overlapping(lasers, invs) ==
  {i \in 1..Len(lasers) :
     \E j \in 1..Len(invs) : colliderect(getRect(lasers[i]), getRect(invs[j]))}

\* C9: one run of the defender-laser x invader loop removes as many invaders
\* as lasers and adds the removed invaders' scoreValues to the score: a laser
\* removes one invader however many it overlaps, and no invader is removed
\* without a laser.
C9_OneInvaderPerLaser ==
  [][ IsStep =>
        /\ Len(invaders) - Len(invaders') = Len(defenderLasers) - Len(defenderLasers')
        /\ Len(invaders') <= Len(invaders)
        /\ score' - score = TotalScore(invaders) - TotalScore(invaders')
        /\ (Overlapping(defenderLasers, invaders) = {}) =>
             (invaders' = invaders /\ defenderLasers' = defenderLasers) ]_vars

\* a single laser that overlapped three invaders removed one of them
C9_Witness ==
  /\ steps = 1
  /\ Len(lastStep.atCheck.defenderLasers) = 1
  /\ Len(lastStep.atCheck.invaders) = 3
  /\ \A j \in 1..3 : colliderect(getRect(lastStep.atCheck.defenderLasers[1]),
                                 getRect(lastStep.atCheck.invaders[j]))
  /\ Len(invaders) = 2 /\ defenderLasers = <<>>
  /\ score = invaderTypes[lastStep.atCheck.invaders[1].name].scoreValue

\* ------------------------------------------------------------------------
\* The defender at the edges of the screen
\* ------------------------------------------------------------------------
\* Early in a game the player has driven the defender to an edge of the
\* screen or one move away from it (its x is a multiple of its speed from
\* the start position); with or without an invader's laser two frames above
\* it, with the last life or with all of them.
EdgeGames(p) ==
  {MidGame(l, 200, 0, 1..totalInvaders, p, dx, <<>>, <<>>, <<3, 3, 3, 3>>) :
     l \in {1, initialLives}, dx \in {0, 735}}
  \cup {MidGame(l, 200, 0, 1..totalInvaders, p, dx, <<>>,
                <<ILaser(dx + 28, IF l = initialLives THEN 508 ELSE 518)>>,
                <<3, 3, 3, 3>>) :
          l \in {1, initialLives}, dx \in {0, 735}}

EdgeInit ==
  \E p \in 1..NumTypePatterns : \E w \in EdgeGames(p) : StartsAs(w)

EdgeSpec == EdgeInit /\ [][Next]_vars

\* C11: the defender's x is always within [0, displayWidth - width]: at the
\* start, after every event, after every simulation step with its movement,
\* after a respawn and after a reset.
C11_DefenderOnScreen ==
  /\ 0 <= defender.x
  /\ defender.x <= (displayWidth - defender.width) * Scale

\* the left key alone was held at the left edge during a step, and the
\* defender stayed at x = 0
C11_Witness ==
  /\ events = 1 /\ steps >= 1
  /\ lastStep.atCheck.defender.moveLeft /\ lastStep.atCheck.defender.x = 0
  /\ defender.x = 0 /\ gameState = "playing"

\* ------------------------------------------------------------------------
\* The invader sweep on its own
\* ------------------------------------------------------------------------
\* how far from an edge (in pixels) the invader nearest to it starts
MaxEdgeGap == 4

\* the grid with the invaders of slots 1..n left, the one nearest the edge
\* it sweeps towards gap pixels short of it (gap = 0: in mid screen)
SweepGrid(n, dir, gap) ==
  LET columns == {(i - 1) % invaderColumns : i \in 1..n}
      last == CHOOSE c \in columns : \A c2 \in columns : c2 <= c
      col0x == IF gap = 0 THEN 2 * invaderStartX
               ELSE IF dir = 1
               THEN displayWidth - invaderTypes["Dalek"].width - gap
                    - last * invaderSpacing
               ELSE gap
  IN GridFrom(1, col0x, 0, 1..n, 1)

SweepInit ==
  \E n \in 1..totalInvaders, dir \in {1, -1}, gap \in 0..MaxEdgeGap :
    StartsAs([InitialWorld(1) EXCEPT !.gameState = "playing",
                                     !.invaders = SweepGrid(n, dir, gap),
                                     !.invaderDirection = dir])

\* moveInvaders, run once
RunMoveInvaders ==
  /\ steps = 0
  /\ \E w \in {moveInvaders(World)} : Becomes(w)
  /\ steps' = 1
  /\ UNCHANGED <<exited, events, lastStep>>

SweepNext == RunMoveInvaders

SweepSpec == SweepInit /\ [][SweepNext]_vars

\* how far the first invader of the list went in the sweep direction
Swept == (invaders'[1].x - invaders[1].x) * invaderDirection

\* C12: with n invaders left, moveInvaders moves them by
\* min(startInvaderSpeed * totalInvaders / n, 3 * startInvaderSpeed): by no
\* more than either, by one of the two, never by less than
\* startInvaderSpeed, and by 3 when 3 of 18 are left.
C12_SweepSpeed ==
  [][ IsStep =>
        LET n == Len(invaders)
        IN /\ Swept * n <= startInvaderSpeed * totalInvaders * Scale
           /\ Swept <= 3 * startInvaderSpeed * Scale
           /\ \/ Swept * n = startInvaderSpeed * totalInvaders * Scale
              \/ Swept = 3 * startInvaderSpeed * Scale
           /\ Swept >= startInvaderSpeed * Scale
           /\ (n = 3) => (Swept = 3 * Scale) ]_vars

\* three invaders were left and moved by 3 pixels; seven would move by 18/7
C12_Witness ==
  /\ steps = 1
  /\ Len(invaders) = 3
  /\ invaders[1].x = (2 * invaderStartX + 3) * Scale
  /\ invaderDirection = 1

\* an invader of the list is at or beyond an edge / beyond an edge
AtEdge(invs) ==
  \E i \in 1..Len(invs) :
     invs[i].x <= 0 \/ invs[i].x >= (displayWidth - invs[i].width) * Scale
PastEdge(invs) ==
  \E i \in 1..Len(invs) :
     invs[i].x < 0 \/ invs[i].x > (displayWidth - invs[i].width) * Scale

\* the sweep reversed and every invader came down by invaderDrop / the sweep
\* went on and no invader came down
Descended ==
  /\ invaderDirection' = -invaderDirection
  /\ \A i \in 1..Len(invaders) : invaders'[i].y = invaders[i].y + invaderDrop
Level ==
  /\ invaderDirection' = invaderDirection
  /\ \A i \in 1..Len(invaders) : invaders'[i].y = invaders[i].y

\* C20 as the spec states it: the descent and reversal happen exactly when,
\* all invaders moved, one of them is outside [0, displayWidth - width].
C20_DescentWhenOutside ==
  [][ IsStep => IF PastEdge(invaders') THEN Descended ELSE Level ]_vars

\* C20: the descent and reversal happen exactly when, all invaders moved,
\* one of them has x <= 0 or x >= displayWidth - width: an invader exactly
\* on an edge triggers them as one beyond it does.
C20_DescentWhenAtEdge ==
  [][ IsStep => IF AtEdge(invaders') THEN Descended ELSE Level ]_vars

\* the sweep brought an invader exactly onto the right edge, and the
\* invaders came down and reversed
C20_Witness ==
  /\ steps = 1
  /\ AtEdge(invaders) /\ ~PastEdge(invaders)
  /\ invaderDirection = -1
  /\ invaders[1].y = invaderStartY + invaderDrop

\* ------------------------------------------------------------------------
\* The sweep within a simulation step
\* ------------------------------------------------------------------------
\* C19: in a simulation step every invader still in the set has moved by
\* currentSpeed * direction in x, the same for all, and by the same amount
\* in y: by invaderDrop for all in the steps in which the direction flips,
\* by nothing in the others; the direction flips at most once.
C19_LockStep ==
  [][ IsStep =>
        LET dx == currentSpeed(Len(invaders)) * invaderDirection
            dy == IF invaderDirection' = invaderDirection THEN 0 ELSE invaderDrop
        IN /\ invaderDirection' \in {invaderDirection, -invaderDirection}
           /\ \A i \in 1..Len(invaders') :
                 \E j \in 1..Len(invaders) :
                    invaders'[i] = [invaders[j] EXCEPT !.x = @ + dx, !.y = @ + dy] ]_vars

\* the full grid reached the right edge in a step: the direction flipped and
\* the invaders, several rows and columns of them, are one descent lower
C19_Witness ==
  /\ steps = 1
  /\ invaderDirection = -1
  /\ Len(invaders) >= invaderColumns
  /\ invaders[1].y = invaderStartY + 13 * invaderDrop
  /\ invaders[1].x = 440 * Scale

\* ------------------------------------------------------------------------
\* The start and game-over screens, and the end of the loop
\* ------------------------------------------------------------------------
\* what the game consists of, the state and the loop's flag apart
GameVars ==
  <<score, lives, victory, defender, invaders, barriers, defenderLasers,
    invaderLasers, invaderDirection>>

\* C13: on the start and game-over screens an event or frame that is not a
\* confirm key press leaves score, lives, victory, defender, invaders,
\* barriers, both laser lists and the direction as they are; the movement
\* keys, pressed or released, change nothing at all there, and the fire key
\* adds no laser and sets no movement flag.
C13_IdleScreens ==
  /\ [][ (gameState \in {"start", "gameover"} /\ ~ConfirmPressed)
           => UNCHANGED GameVars ]_vars
  /\ [](gameState \in {"start", "gameover"} =>
          /\ \A key \in {"LEFT", "RIGHT"} :
                /\ HandleKeyDown(World, key, 1) = World
                /\ HandleKeyUp(World, key) = World
          /\ LET w == HandleKeyDown(World, "SPACE", 1)
             IN /\ Len(w.defenderLasers) <= Len(defenderLasers)
                /\ w.defender.moveLeft => defender.moveLeft
                /\ w.defender.moveRight => defender.moveRight)

\* events were delivered on the start screen, none of them a confirm or a
\* quit (no transition leads back to the start screen), and the game is as
\* it was built
C13_Witness ==
  /\ gameState = "start" /\ running
  /\ events >= 2
  /\ score = 0 /\ lives = initialLives /\ defender = NewDefender
  /\ defenderLasers = <<>> /\ Len(invaders) = totalInvaders

\* C14: the loop's flag is cleared only by a quit event, in any state, or by
\* the cancel key on the game-over screen, and the loop ends only with the
\* flag cleared; a quit clears it in every state and the cancel key on the
\* game-over screen does; the cancel key on the start screen and while
\* playing changes nothing.
C14_LoopEnds ==
  /\ [][ /\ (running /\ ~running') =>
              /\ events' = events + 1
              /\ \/ Becomes(HandleQuit(World))
                 \/ /\ gameState = "gameover"
                    /\ Becomes(HandleKeyDown(World, "ESCAPE", 1))
         /\ (~exited /\ exited') => ~running ]_vars
  /\ [](/\ ~HandleQuit(World).running
        /\ gameState = "gameover" => ~HandleKeyDown(World, "ESCAPE", 1).running
        /\ gameState \in {"start", "playing"} =>
              HandleKeyDown(World, "ESCAPE", 1) = World)

\* the loop has ended on the game-over screen
C14_Witness ==
  /\ exited /\ ~running
  /\ gameState = "gameover"
  /\ events >= 1 /\ steps >= 1

\* ------------------------------------------------------------------------
\* Lists that shrink while a collision loop walks them
\* ------------------------------------------------------------------------
\* C15 as the spec states it, in what follows from it: every defender laser
\* that overlaps an invader is removed by the pass with an invader, so after
\* the pass no defender laser left overlaps an invader left.
C15_NoLaserLeftInInvader ==
  [][ IsStep => Overlapping(defenderLasers', invaders') = {} ]_vars

\* the barriers a laser x barrier pass is run on: the first two of the
\* barriers at every health, the others whole
PassBarriers ==
  {BarriersFrom(1, <<h1, h2, 3, 3>>) :
     h1 \in 1..barrierTypes["Barrier"].health,
     h2 \in 1..barrierTypes["Barrier"].health}

\* defender lasers entering the first and the second barrier from below, and
\* one between the two
BarrierPassDefenderLasers ==
  {DLaser(150, 418), DLaser(170, 418), DLaser(300, 418), DLaser(240, 418)}

\* invader lasers entering the first and the second barrier from above, and
\* one between the two
BarrierPassInvaderLasers ==
  {ILaser(150, 395), ILaser(300, 395), ILaser(240, 395)}

BarrierPassInit ==
  \E dl \in SeqsUpTo(BarrierPassDefenderLasers, MaxPassLasers),
     il \in SeqsUpTo(BarrierPassInvaderLasers, MaxPassLasers),
     bars \in PassBarriers :
    StartsAs([InitialWorld(1) EXCEPT !.gameState = "playing",
                                     !.defenderLasers = dl,
                                     !.invaderLasers = il,
                                     !.barriers = bars])

\* checkDefenderLaserCollisions' second loop, run once
RunDefenderLaserBarrierPass ==
  /\ steps = 0
  /\ \E n \in 3..6 : \E w \in {DefenderLaserBarrierPass(World, n)} : Becomes(w)
  /\ steps' = 1
  /\ UNCHANGED <<exited, events, lastStep>>

\* checkInvaderLaserCollisions' first loop, run once
RunInvaderLaserBarrierPass ==
  /\ steps = 0
  /\ \E n \in 3..6 : \E w \in {InvaderLaserBarrierPass(World, n)} : Becomes(w)
  /\ steps' = 1
  /\ UNCHANGED <<exited, events, lastStep>>

BarrierPassNext == RunDefenderLaserBarrierPass \/ RunInvaderLaserBarrierPass

BarrierPassSpec == BarrierPassInit /\ [][BarrierPassNext]_vars

\* the healths of a list of barriers, summed
RECURSIVE TotalHealth(_)
TotalHealth(bars) ==
  IF bars = <<>> THEN 0 ELSE Head(bars).health + TotalHealth(Tail(bars))

\* C16 as the spec states it: a laser x barrier pass, over the defender's
\* lasers or the invaders', takes one health from a barrier for each laser
\* it removes, leaves the score alone, and leaves no laser of its list
\* overlapping a barrier that is still there.
C16_NoLaserLeftInBarrier ==
  [][ /\ RunDefenderLaserBarrierPass =>
           /\ Len(defenderLasers) - Len(defenderLasers')
                = TotalHealth(barriers) - TotalHealth(barriers')
           /\ score' = score
           /\ Overlapping(defenderLasers', barriers') = {}
      /\ RunInvaderLaserBarrierPass =>
           /\ Len(invaderLasers) - Len(invaderLasers')
                = TotalHealth(barriers) - TotalHealth(barriers')
           /\ score' = score
           /\ Overlapping(invaderLasers', barriers') = {} ]_vars

\* C17 as the spec states it, in what follows from it: after the invader x
\* barrier pass of a step no invader left overlaps a barrier left.
C17_NoInvaderLeftInBarrier ==
  [][ IsStep => Overlapping(invaders', barriers') = {} ]_vars

\* ------------------------------------------------------------------------
\* The order of laser advance and invader fire
\* ------------------------------------------------------------------------
\* the lasers of a list, each advanced once
Advanced(lasers) == {LaserMove(l) : l \in Range(lasers)}

\* the lasers the invaders can fire in a step from here: from the bottom
\* centre of an invader where moveInvaders has put it
Spawnable == {InvaderLaser(inv) : inv \in Range(moveInvaders(World).invaders)}

\* C18 as the spec states it: an invader's laser left by a step is a laser
\* of before the step advanced once, or one spawned in the step and still at
\* its spawn position, the firing invader's bottom centre.
C18_SpawnedLaserAtSpawn ==
  [][ IsStep =>
        \A l \in Range(invaderLasers') :
           l \in Advanced(invaderLasers) \/ l \in Spawnable ]_vars

\* C18: the defender's lasers are advanced and culled before the invaders
\* fire, the invaders' lasers after they fire: an invader's laser left by a
\* step is a laser of before the step advanced once, or one spawned in the
\* step at the firing invader's bottom centre and advanced once by its
\* speed; a defender's laser left by a step is one of before advanced once.
C18_SpawnedLaserAdvanced ==
  [][ IsStep =>
        /\ \A l \in Range(invaderLasers') :
              l \in Advanced(invaderLasers)
                \/ \E sp \in Spawnable : l = LaserMove(sp)
        /\ \A l \in Range(defenderLasers') : l \in Advanced(defenderLasers) ]_vars

\* an invader has fired in the latest step and its laser is in flight, one
\* advance below the invader's bottom centre
C18_Witness ==
  /\ steps >= 1 /\ gameState = "playing"
  /\ \E i \in 1..Len(invaders) :
        /\ LaserMove(InvaderLaser(invaders[i])) \in Range(invaderLasers)
        /\ InvaderLaser(invaders[i]) \notin Range(invaderLasers)

\* ------------------------------------------------------------------------
\* Lasers about to leave the screen
\* ------------------------------------------------------------------------
\* Two hundred frames into a game with the whole grid alive (column 0 at
\* x = 300, no descent yet): a laser the defender fired from x = 100 has
\* passed left of the grid and is one or two advances from the top; a laser
\* an invader fired has passed between the first two barriers and is one to
\* three advances from the bottom (597 advances exactly onto displayHeight).
\* In the last two games the defender is on its last life and a second
\* laser of an invader is two frames above it.
CullGames(p) ==
  {MidGame(initialLives, 300, 0, 1..totalInvaders, p, 370,
           <<DLaser(130, dy)>>, <<ILaser(il[1], il[2])>>, <<3, 3, 3, 3>>) :
     dy \in {2, 9}, il \in {<<223, 594>>, <<222, 597>>, <<210, 598>>}}
  \cup {MidGame(1, 300, 0, 1..totalInvaders, p, 370, <<DLaser(130, dy)>>,
                <<ILaser(222, 597), ILaser(398, 518)>>, <<3, 3, 3, 3>>) :
          dy \in {2, 9}}

CullInit ==
  \E p \in 1..NumTypePatterns : \E w \in CullGames(p) : StartsAs(w)

CullSpec == CullInit /\ [][Next]_vars

\* the lasers in flight, of both lists
Projectiles == Range(defenderLasers) \cup Range(invaderLasers)

\* C21: a laser's x never changes; a step changes the y of a laser it
\* advances by the laser's signed speed, once (a laser left by a step is one
\* of before the step, or one an invader fired in the step, moved once by
\* Laser.move); anything else leaves the lasers in flight as they are, adds
\* the one the defender fires or clears the lists; and a laser that is off
\* the screen after its advance is removed in that step, so that every
\* laser of either list has 0 <= y <= displayHeight.
C21_LasersOnScreen ==
  /\ [](\A l \in Projectiles : 0 <= l.y /\ l.y <= displayHeight)
  /\ [][ /\ IsStep =>
              /\ \A l \in Range(defenderLasers') :
                    \E o \in Range(defenderLasers) :
                       l = [o EXCEPT !.y = o.y + o.speed]
              /\ \A l \in Range(invaderLasers') :
                    \E o \in Range(invaderLasers) \cup Spawnable :
                       l = [o EXCEPT !.y = o.y + o.speed]
         /\ ~IsStep =>
              /\ Range(invaderLasers') \subseteq Range(invaderLasers)
              /\ Range(defenderLasers')
                   \subseteq Range(defenderLasers) \cup {DefenderLaser(defender)}
       ]_vars

\* a step has advanced an invader's laser exactly onto the bottom line of
\* the screen, where it stays in flight, and the defender's laser, which
\* hit nothing, has left by the top (no hit, no respawn, no reset)
C21_Witness ==
  /\ steps >= 1 /\ gameState = "playing" /\ events = 0
  /\ lives = initialLives /\ score = 0 /\ Len(barriers) = 4
  /\ \E l \in Range(invaderLasers) : l.y = displayHeight
  /\ defenderLasers = <<>>

\* ------------------------------------------------------------------------
\* Barrier.takeDamage, call after call
\* ------------------------------------------------------------------------
\* the number of takeDamage calls in a behaviour
MaxHits == 5

DamageInit ==
  \E p \in 1..NumTypePatterns :
     StartsAs(MidGame(initialLives, 200, 0, 1..totalInvaders, p, 370,
                      <<>>, <<>>, <<3, 3, 3, 3>>))

\* one hit on a barrier of the set: takeDamage and, as all three collision
\* loops do after it, the removal of the barrier if it is destroyed
RunTakeDamage ==
  /\ steps < MaxHits
  /\ \E j \in 1..Len(barriers), n \in 3..6 :
        barriers' = DamageBarrier(barriers, j, n)
  /\ steps' = steps + 1
  /\ UNCHANGED <<gameState, score, lives, victory, defender, defenderLasers,
                 invaders, invaderLasers, invaderDirection, running, exited,
                 events, lastStep>>

DamageNext == RunTakeDamage

DamageSpec == DamageInit /\ [][DamageNext]_vars

\* the hits a barrier has taken
HitsTaken(b) == barrierTypes[b.name].health - b.health

\* C22: a hit that leaves the barrier alive adds between 3 and 6 damage
\* decals to it and takes none away; a hit that destroys it adds none (and
\* the barrier leaves the set); the other barriers are untouched; so a
\* barrier of the set that has taken h hits has between 3h and 6h decals,
\* and its number of decals never decreases.
C22_DecalsPerHit ==
  /\ [](\A b \in Range(barriers) :
          /\ b.health >= 1
          /\ 3 * HitsTaken(b) <= b.damageRegions
          /\ b.damageRegions <= 6 * HitsTaken(b)
          /\ \A n \in 3..6 :
                b.health = 1 => takeDamage(b, n).damageRegions = b.damageRegions)
  /\ [][ IsStep =>
           \E b \in Range(barriers) :
              /\ \A c \in Range(barriers) : c # b => c \in Range(barriers')
              /\ Len(barriers') = IF b.health > 1 THEN Len(barriers)
                                  ELSE Len(barriers) - 1
              /\ IF b.health > 1
                 THEN \E c \in Range(barriers') :
                         /\ c.x = b.x /\ c.health = b.health - 1
                         /\ c.damageRegions - b.damageRegions \in 3..6
                 ELSE \A c \in Range(barriers') : c.x # b.x ]_vars

\* a barrier has taken two hits, one of 3 and one of 6 decals, and another
\* barrier has been destroyed by its third hit
C22_Witness ==
  /\ Len(barriers) = barrierCount - 1
  /\ \E b \in Range(barriers) : b.health = 1 /\ b.damageRegions = 9

\* ------------------------------------------------------------------------
\* The score and the invader set between two resets
\* ------------------------------------------------------------------------
\* the transition is a reset: a confirm key on the game-over screen
IsReset == gameState = "gameover" /\ gameState' = "playing"

\* the invaders a step removes, where moveInvaders has put them
Removed ==
  SelectSeq(moveInvaders(World).invaders,
            LAMBDA inv : inv \notin Range(invaders'))

\* those of them that touch no barrier: only a laser can have removed them
ShotForSure ==
  SelectSeq(Removed,
            LAMBDA inv : \A b \in Range(barriers) :
                            ~colliderect(getRect(inv), getRect(b)))

\* those of them that touch no laser of the defender: they crashed
CrashedForSure ==
  SelectSeq(Removed,
            LAMBDA inv : \A l \in Range(AdvanceLasers(defenderLasers)) :
                            ~colliderect(getRect(l), getRect(inv)))

\* the largest scoreValue of the invader types
MaxScoreValue ==
  CHOOSE v \in {invaderTypes[t].scoreValue : t \in Range(invaderTypeNames)} :
     \A t \in Range(invaderTypeNames) : invaderTypes[t].scoreValue <= v

MaxReverseGap == 3

\* Games in which the sweep is within MaxReverseGap pixels of an edge.
\* Towards the right edge, before any descent: 18, 9, 7 invaders or the last
\* one (speeds 1, 2, 18/7 and 3), the outermost in column 5; the last one
\* with or without a laser of the defender just under it.  Towards the left
\* edge, after one descent: the whole grid with a laser of the defender
\* under column 1 that hits in the frame after the reversal, or the first
\* invader of the bottom row alone.
ReverseGames(p) ==
  {MidGame(initialLives, 765 - 5 * invaderSpacing - gap, 0, alive, p, 370,
           <<>>, <<>>, <<3, 3, 3, 3>>) :
     gap \in 1..MaxReverseGap,
     alive \in {1..totalInvaders, 1..9, 12..totalInvaders, {18}}}
  \cup {MidGame(initialLives, 765 - 5 * invaderSpacing - gap, 0, {18}, p, 370,
                <<DLaser(770, 290)>>, <<>>, <<3, 3, 3, 3>>) :
          gap \in 1..MaxReverseGap}
  \cup {MidGame(initialLives, gap, 1, 1..totalInvaders, p, 370,
                <<DLaser(80, 306)>>, <<>>, <<3, 3, 3, 3>>) :
          gap \in 1..MaxReverseGap}
  \cup {MidGame(initialLives, gap, 1, {13}, p, 370, <<>>, <<>>, <<3, 3, 3, 3>>) :
          gap \in 1..MaxReverseGap}

ReverseInit ==
  \E p \in 1..NumTypePatterns : \E w \in ReverseGames(p) : StartsAs(w)

ReverseSpec == ReverseInit /\ [][Next]_vars

\* C24: an invader is at or beyond an edge only in the frame that reversed
\* the sweep, and the sweep then points away from that edge; the next step
\* of the game does not reverse again and leaves every invader strictly
\* inside (0, displayWidth - width); between two steps of a game the speed
\* at which the remaining invaders sweep does not decrease.
C24_NoDoubleReversal ==
  /\ [](\A i \in 1..Len(invaders) :
          /\ invaders[i].x <= 0 => invaderDirection = 1
          /\ invaders[i].x >= (displayWidth - invaders[i].width) * Scale
               => invaderDirection = -1)
  /\ [][ IsStep =>
           /\ AtEdge(invaders') => invaderDirection' = -invaderDirection
           /\ AtEdge(invaders) =>
                /\ invaderDirection' = invaderDirection
                /\ ~AtEdge(invaders')
           /\ Len(invaders') > 0
                => currentSpeed(Len(invaders')) >= currentSpeed(Len(invaders)) ]_vars

\* the whole grid reversed at the left edge in one step; in the next a laser
\* shot an invader, the sweep went on to the right, faster, and every
\* invader is strictly inside
C24_Witness ==
  /\ steps = 2 /\ gameState = "playing"
  /\ Len(invaders) = totalInvaders - 1
  /\ invaderDirection = 1
  /\ invaders[1].y = invaderStartY + 2 * invaderDrop
  /\ ~AtEdge(invaders)
  /\ invaders[1].x < 2 * currentSpeed(totalInvaders)

\* ------------------------------------------------------------------------
\* The frame after a respawn
\* ------------------------------------------------------------------------
\* the positions, in the invader list of a step's body check, of the
\* invaders overlapping the defender
BodyHitters(t) ==
  {i \in 1..Len(t.atCheck.invaders) :
     colliderect(getRect(t.atCheck.invaders[i]), getRect(t.atCheck.defender))}

\* C25: when a step ends in a body hit that leaves lives (the defender is
\* respawned and the game goes on), the next step of the game does not end
\* in a body hit by the same invader: lives do not drop in two consecutive
\* frames because one invader stays over the respawn position.
C25_NoHitByTheSameInvader ==
  [][ ( /\ IsStep
        /\ steps >= 1
        /\ lastStep.invaderResult = "defender hit"
        /\ gameState = "playing" )
      => ~( /\ lastStep'.invaderResult = "defender hit"
            /\ lives' = lives - 1
            /\ Len(lastStep'.atCheck.invaders) = Len(lastStep.atCheck.invaders)
            /\ BodyHitters(lastStep) \cap BodyHitters(lastStep') # {} ) ]_vars

\* ------------------------------------------------------------------------
\* Invaders that pass the defender
\* ------------------------------------------------------------------------
\* the invaders' y at which the frames of this specification stop
MaxInvaderY == 780

\* Late in a game: the barriers are gone and two invaders are left, the
\* first of the top row and the last of the bottom row (five columns apart,
\* so the one sweeps x in [0, 440] and the other x in [325, 765]).  The
\* bottom one has just come down, at the right edge, to the height at which
\* it overlaps the defender's rows; the defender, never hit, stands at the
\* left edge.
DescentGames(p) ==
  {MidGame(initialLives, 765 - 5 * invaderSpacing, 25, {1, totalInvaders}, p, 0,
           <<>>, <<>>, <<0, 0, 0, 0>>)}

DescentInit ==
  \E p \in 1..NumTypePatterns : \E w \in DescentGames(p) : StartsAs(w)

\* the simulation step, frame after frame, in a game in which no invader's
\* fire draw succeeds
DescentFrame ==
  /\ ~exited
  /\ gameState = "playing"
  /\ \A i \in 1..Len(invaders) : invaders[i].y < MaxInvaderY
  /\ \E r \in {SimulationStep(World, {}, 3)} :
        /\ Becomes(r.w)
        /\ lastStep' = r.trace
  /\ steps' = steps + 1
  /\ exited' = ~running
  /\ UNCHANGED events

\* the one key event of these games: the player presses the right arrow,
\* once, and keeps it down
PressRight ==
  /\ ~exited
  /\ gameState = "playing"
  /\ ~defender.moveRight
  /\ \E p \in 1..NumTypePatterns :
        \E w \in {HandleKeyDown(World, "RIGHT", p)} : Becomes(w)
  /\ events' = events + 1
  /\ UNCHANGED <<exited, steps, lastStep>>

DescentNext == PressRight \/ DescentFrame

\* frames keep being processed: the main loop runs one per iteration
DescentSpec == DescentInit /\ [][DescentNext]_vars /\ WF_vars(DescentFrame)

\* the game is being played and every invader left is below the display
InvadersGone ==
  /\ gameState = "playing" /\ running
  /\ invaders # <<>>
  /\ \A i \in 1..Len(invaders) : invaders[i].y >= displayHeight

\* C26: every game ends; in particular no invader goes past the defender and
\* below the bottom of the display while it stays in the invader set: the
\* game is never being played with nothing but invaders below the display,
\* let alone with a defender that has not lost a life.
C26_NoInvaderBelowTheDisplay == ~(InvadersGone /\ lives = initialLives)

\* The game those frames lead to, the two invaders at y = 600 and y = 760,
\* with everything the player can do and the invaders' fire
GoneGames(p) ==
  {MidGame(initialLives, 765 - 5 * invaderSpacing, 55, {1, totalInvaders}, p, 740,
           <<>>, <<>>, <<0, 0, 0, 0>>)}

GoneInit ==
  \E p \in 1..NumTypePatterns : \E w \in GoneGames(p) : StartsAs(w)

GoneSpec == GoneInit /\ [][Next]_vars

\* once the invaders left are below the display the game stays as it is
\* unless the player quits: still played, as many lives, the same score, the
\* same invaders, still below the display
InvadersGoneForGood ==
  [][ (InvadersGone /\ running') =>
        /\ InvadersGone'
        /\ lives' = lives /\ score' = score
        /\ Len(invaders') = Len(invaders) ]_vars
====
